---- MODULE Spec2Model ----
(***************************************************************************)
(* Model of the Lift class of lift_example_RIGLER/lift.ts: one elevator    *)
(* car with panel requests, floor calls, a busy flag and three timed       *)
(* operations (open doors, close doors, move one floor) that suspend on a  *)
(* timer of the event loop.                                                *)
(*                                                                         *)
(* JavaScript runs one task at a time.  A command runs from its call to    *)
(* its first sleep (or its return, or its throw) without interruption; a   *)
(* timer that fires runs the rest of the suspended operation and every     *)
(* continuation awaiting it (moveOneFloor, the loop of stepUntilStop) up   *)
(* to the next sleep.  Each of these runs is one action of the model.      *)
(* `await` of a call that returned without sleeping (an edge reversal      *)
(* inside stepUntilStop) still gives up the thread for one microtask: the  *)
(* synchronous rest of the caller runs before the loop goes on.            *)
(* The durations of the timers (1000 ms, 3000 ms) are recorded in the      *)
(* timer; a timer in flight may fire at any later moment.                  *)
(***************************************************************************)
EXTENDS Integers, Sequences, FiniteSets, TLC

\* ---- bounds of the model -------------------------------------------------
MaxFloor == 3        \* constructor arguments are drawn from 1..MaxFloor
MaxPending == 2      \* at most this many panel requests plus calls are outstanding
MaxStepsArg == 2     \* stepUntilStop(maxSteps) is called with maxSteps in 1..MaxStepsArg
MaxRequests == 2     \* requests registered in a run of the driver specification
MaxLive == 1         \* outstanding requests in the fair specification

\* ---- enums of lift.ts ----------------------------------------------------
Up == 1
Down == -1
Idle == 0
Open == "open"
Closed == "closed"

DoorMs == 1000
MoveMs == 3000
DefaultMaxSteps == 1000

VARIABLES
    minFloor, maxFloor,   \* readonly fields
    currentFloor,         \* _currentFloor
    direction,            \* _direction
    doors,                \* _doors
    panelRequests,        \* Set<number>, kept in insertion order as a JS Set iterates
    calls,                \* Call[]
    busy,                 \* busy flag
    timers,               \* sleeps in flight, each with the continuation that awaits it
    microtasks,           \* continuations of stepUntilStop queued by an await that did not sleep
    result,               \* what the last step was and the error it ended with
    watch,                \* history of the scenario observed: <<f>> after pressButton(f) at floor f
                          \* while Idle, <<>> after any other command; <<f, d, start>> after the
                          \* call of the pickup specification
    driver,               \* position of the driving loop (driver specification only)
    budget                \* requests the driver specification may still register

liftVars == <<minFloor, maxFloor, currentFloor, direction, doors, panelRequests, calls, busy>>
vars == <<minFloor, maxFloor, currentFloor, direction, doors, panelRequests, calls, busy,
          timers, microtasks, result, watch, driver, budget>>

Directions == {Up, Down}
ArgFloors == 0 .. (MaxFloor + 1)

\* The object and its pending timers as one value, threaded through the methods.
Self ==
    [minFloor |-> minFloor, maxFloor |-> maxFloor, currentFloor |-> currentFloor,
     direction |-> direction, doors |-> doors, panelRequests |-> panelRequests,
     calls |-> calls, busy |-> busy, timers |-> timers, microtasks |-> microtasks]

Install(w) ==
    /\ minFloor' = w.minFloor
    /\ maxFloor' = w.maxFloor
    /\ currentFloor' = w.currentFloor
    /\ direction' = w.direction
    /\ doors' = w.doors
    /\ panelRequests' = w.panelRequests
    /\ calls' = w.calls
    /\ busy' = w.busy
    /\ timers' = w.timers
    /\ microtasks' = w.microtasks

Abs(x) == IF x < 0 THEN -x ELSE x

\* Outcome of a (part of a) method run: the object after it, the error it threw
\* ("none" if it did not throw) and whether it is suspended on a sleep.
Ret(w) == [w |-> w, err |-> "none", susp |-> FALSE]
Fail(w, e) == [w |-> w, err |-> e, susp |-> FALSE]
Susp(w) == [w |-> w, err |-> "none", susp |-> TRUE]

\* new Promise(resolve => setTimeout(resolve, ms)), awaited by operation op whose
\* caller is cont: "detached" (void openDoors()), "call" (an outside caller),
\* "move" (moveOneFloor called from outside), "step" (the loop of stepUntilStop
\* with `left` iterations left after this one).
sleep(w, ms, op, next, cont, left) ==
    [w EXCEPT !.timers = Append(@, [op |-> op, ms |-> ms, next |-> next,
                                    cont |-> cont, left |-> left])]

\* `await p` on a promise p that is already settled: the rest of stepUntilStop,
\* with `left` iterations left, is queued as a microtask.
await(w, left) == [w EXCEPT !.microtasks = Append(@, [left |-> left])]

\* ---- constructor -----------------------------------------------------------
constructor(minF, maxF, startF) ==
    /\ ~(minF > maxF)
    /\ ~(startF < minF \/ startF > maxF)

\* ---- helpers ---------------------------------------------------------------
\* (variant: only the lower limit is tested)
assertFloorInRangeLowerOnly(w, floor) == ~(floor < w.minFloor)

\* TRUE iff assertFloorInRange returns without throwing
assertFloorInRange(w, floor) == ~(floor < w.minFloor \/ floor > w.maxFloor)

hasPendingRequests(w) == Len(w.panelRequests) > 0 \/ Len(w.calls) > 0

SetHas(s, x) == \E i \in 1 .. Len(s) : s[i] = x
SetAdd(s, x) == IF SetHas(s, x) THEN s ELSE Append(s, x)
SetDelete(s, x) == SelectSeq(s, LAMBDA y : y # x)

\* (variant: only the calls that match the travel direction are removed)
fulfillAtCurrentFloorCallsKept(w) ==
    [w EXCEPT !.panelRequests = SetDelete(@, w.currentFloor),
              !.calls = SelectSeq(@, LAMBDA c : ~(c.floor = w.currentFloor /\ c.direction = w.direction))]

\* (variant: every call is removed, whatever its floor)
fulfillAtCurrentFloorAllCalls(w) ==
    [w EXCEPT !.panelRequests = SetDelete(@, w.currentFloor),
              !.calls = <<>>]

fulfillAtCurrentFloor(w) ==
    [w EXCEPT !.panelRequests = SetDelete(@, w.currentFloor),
              !.calls = SelectSeq(@, LAMBDA c : c.floor # w.currentFloor)]

\* (variant: calls never stop the car)
shouldStopAtFloorPanelOnly(w, floor) == SetHas(w.panelRequests, floor)

\* (variant: a call of either direction stops the car)
shouldStopAtFloorAnyCall(w, floor) ==
    \/ SetHas(w.panelRequests, floor)
    \/ \E i \in 1 .. Len(w.calls) : w.calls[i].floor = floor

shouldStopAtFloor(w, floor) ==
    IF SetHas(w.panelRequests, floor) THEN TRUE
    ELSE LET callsHere == SelectSeq(w.calls, LAMBDA c : c.floor = floor)
         IN  IF Len(callsHere) = 0 THEN FALSE
             ELSE IF w.direction = Idle THEN TRUE
             ELSE \E i \in 1 .. Len(callsHere) : callsHere[i].direction = w.direction

\* ---- openDoors, up to its sleep --------------------------------------------
\* (variant: without the busy check)
openDoorsUnguarded(w, cont, left) ==
    IF w.doors = Open THEN Ret(w)
    ELSE Susp(sleep([w EXCEPT !.busy = TRUE], DoorMs, "open", w.currentFloor, cont, left))

\* (variant: busy is not set during the door-open)
openDoorsBusyNotSet(w, cont, left) ==
    IF w.doors = Open THEN Ret(w)
    ELSE IF w.busy THEN Fail(w, "BusyError")
    ELSE Susp(sleep(w, DoorMs, "open", w.currentFloor, cont, left))

openDoors(w, cont, left) ==
    IF w.doors = Open THEN Ret(w)
    ELSE IF w.busy THEN Fail(w, "BusyError")
    ELSE Susp(sleep([w EXCEPT !.busy = TRUE], DoorMs, "open", w.currentFloor, cont, left))

\* ---- updateDirectionIfIdle -------------------------------------------------
\* (variant: the call floors are enumerated before the panel floors)
targetsOfCallsFirst(w) == [i \in 1 .. Len(w.calls) |-> w.calls[i].floor] \o w.panelRequests

targetsOf(w) == w.panelRequests \o [i \in 1 .. Len(w.calls) |-> w.calls[i].floor]

RECURSIVE nearestFrom(_, _, _, _)
nearestFrom(targets, i, nearest, cur) ==
    IF i > Len(targets) THEN nearest
    ELSE nearestFrom(targets, i + 1,
                     IF Abs(targets[i] - cur) < Abs(nearest - cur) THEN targets[i] ELSE nearest,
                     cur)

nearestTarget(w) == nearestFrom(targetsOf(w), 1, targetsOf(w)[1], w.currentFloor)

\* (variant: the evaluation also runs while the direction is Up or Down)
updateDirectionAlways(w) ==
    IF ~hasPendingRequests(w) THEN [w EXCEPT !.direction = Idle]
    ELSE LET nearest == nearestTarget(w)
             newDir == IF nearest > w.currentFloor THEN Up
                       ELSE IF nearest < w.currentFloor THEN Down ELSE Idle
             w1 == [w EXCEPT !.direction = newDir]
         IN  IF newDir = Idle THEN openDoors(w1, "detached", 0).w ELSE w1

\* `void this.openDoors()`: the promise is dropped, a rejection changes nothing.
updateDirectionIfIdle(w) ==
    IF w.direction # Idle THEN w
    ELSE IF ~hasPendingRequests(w) THEN [w EXCEPT !.direction = Idle]
    ELSE LET nearest == nearestTarget(w)
             newDir == IF nearest > w.currentFloor THEN Up
                       ELSE IF nearest < w.currentFloor THEN Down ELSE Idle
             w1 == [w EXCEPT !.direction = newDir]
         IN  IF newDir = Idle THEN openDoors(w1, "detached", 0).w ELSE w1

\* ---- closeDoors, up to its sleep -------------------------------------------
\* (variant: without the busy check)
closeDoorsUnguarded(w) ==
    IF w.doors = Closed THEN Ret(w)
    ELSE Susp(sleep([w EXCEPT !.busy = TRUE], DoorMs, "close", w.currentFloor, "call", 0))

closeDoors(w) ==
    IF w.doors = Closed THEN Ret(w)
    ELSE IF w.busy THEN Fail(w, "BusyError")
    ELSE Susp(sleep([w EXCEPT !.busy = TRUE], DoorMs, "close", w.currentFloor, "call", 0))

\* ---- moveOneFloor, up to its sleep -----------------------------------------
\* (variant: without the edge test)
moveOneFloorNoEdge(w, cont, left) ==
    IF w.doors = Open THEN Fail(w, "DoorsOpenError")
    ELSE IF w.busy THEN Fail(w, "BusyError")
    ELSE LET w1 == IF w.direction = Idle THEN updateDirectionIfIdle(w) ELSE w
         IN  IF w1.direction = Idle THEN Fail(w1, "NoDestinationError")
             ELSE Susp(sleep([w1 EXCEPT !.busy = TRUE], MoveMs, "move",
                             w1.currentFloor + w1.direction, cont, left))

\* (variant: without the doors check)
moveOneFloorDoorsUnchecked(w, cont, left) ==
    IF w.busy THEN Fail(w, "BusyError")
    ELSE LET w1 == IF w.direction = Idle THEN updateDirectionIfIdle(w) ELSE w
         IN  IF w1.direction = Idle THEN Fail(w1, "NoDestinationError")
             ELSE LET next == w1.currentFloor + w1.direction
                  IN  IF next < w1.minFloor \/ next > w1.maxFloor
                      THEN Ret([w1 EXCEPT !.direction = IF @ = Up THEN Down ELSE Up])
                      ELSE Susp(sleep([w1 EXCEPT !.busy = TRUE], MoveMs, "move", next, cont, left))

\* (variant: at the edge the direction becomes Idle instead of flipping)
moveOneFloorParksAtEdge(w, cont, left) ==
    IF w.doors = Open THEN Fail(w, "DoorsOpenError")
    ELSE IF w.busy THEN Fail(w, "BusyError")
    ELSE LET w1 == IF w.direction = Idle THEN updateDirectionIfIdle(w) ELSE w
         IN  IF w1.direction = Idle THEN Fail(w1, "NoDestinationError")
             ELSE LET next == w1.currentFloor + w1.direction
                  IN  IF next < w1.minFloor \/ next > w1.maxFloor
                      THEN Ret([w1 EXCEPT !.direction = Idle])
                      ELSE Susp(sleep([w1 EXCEPT !.busy = TRUE], MoveMs, "move", next, cont, left))

moveOneFloor(w, cont, left) ==
    IF w.doors = Open THEN Fail(w, "DoorsOpenError")
    ELSE IF w.busy THEN Fail(w, "BusyError")
    ELSE LET w1 == IF w.direction = Idle THEN updateDirectionIfIdle(w) ELSE w
         IN  IF w1.direction = Idle THEN Fail(w1, "NoDestinationError")
             ELSE LET next == w1.currentFloor + w1.direction
                  IN  IF next < w1.minFloor \/ next > w1.maxFloor
                      THEN Ret([w1 EXCEPT !.direction = IF @ = Up THEN Down ELSE Up])
                      ELSE Susp(sleep([w1 EXCEPT !.busy = TRUE], MoveMs, "move", next, cont, left))

\* ---- stepUntilStop: the loop with n iterations left, up to its next await --
stepUntilStop(w, n) ==
    IF n = 0 THEN Ret(w)
    ELSE IF w.doors = Open \/ w.direction = Idle THEN Ret(w)
    ELSE LET r == moveOneFloor(w, "step", n - 1)
         IN  IF r.err # "none" \/ r.susp THEN r ELSE Susp(await(r.w, n - 1))

\* The microtasks queued by a task run, in order, before the task ends.
RECURSIVE drain(_)
drain(r) ==
    IF r.w.microtasks = <<>> THEN r
    ELSE LET m == Head(r.w.microtasks)
             r2 == stepUntilStop([r.w EXCEPT !.microtasks = Tail(@)], m.left)
         IN  drain([r2 EXCEPT !.err = IF r.err # "none" THEN r.err ELSE r2.err])

\* What runs when an awaited operation of caller `cont` has returned.
resume(w, cont, left) ==
    IF cont = "step" THEN stepUntilStop(w, left) ELSE Ret(w)

\* ---- the three operations after their sleep --------------------------------
\* (variant: the direction is not reset when nothing is pending)
openDoorsDoneKeepsDirection(w, t) ==
    LET w1 == fulfillAtCurrentFloor([w EXCEPT !.doors = Open])
    IN  resume([w1 EXCEPT !.busy = FALSE], t.cont, t.left)

\* (variant: the stores are tested before the fulfilment)
openDoorsDoneTestsFirst(w, t) ==
    LET w1 == [w EXCEPT !.doors = Open]
        w2 == IF ~hasPendingRequests(w1) THEN [w1 EXCEPT !.direction = Idle] ELSE w1
    IN  resume([fulfillAtCurrentFloor(w2) EXCEPT !.busy = FALSE], t.cont, t.left)

openDoorsDone(w, t) ==
    LET w1 == fulfillAtCurrentFloor([w EXCEPT !.doors = Open])
        w2 == IF ~hasPendingRequests(w1) THEN [w1 EXCEPT !.direction = Idle] ELSE w1
    IN  resume([w2 EXCEPT !.busy = FALSE], t.cont, t.left)

\* (variant: busy is not cleared when the doors have closed)
closeDoorsDoneBusyKept(w, t) ==
    LET w1 == updateDirectionIfIdle([w EXCEPT !.doors = Closed])
    IN  resume(w1, t.cont, t.left)

closeDoorsDone(w, t) ==
    LET w1 == updateDirectionIfIdle([w EXCEPT !.doors = Closed])
    IN  resume([w1 EXCEPT !.busy = FALSE], t.cont, t.left)

moveOneFloorDone(w, t) ==
    LET w1 == [w EXCEPT !.currentFloor = t.next, !.busy = FALSE]
    IN  IF shouldStopAtFloor(w1, w1.currentFloor)
        THEN LET r == openDoors(w1, IF t.cont = "step" THEN "step" ELSE "move", t.left)
             IN  IF r.err # "none" \/ r.susp THEN r ELSE resume(r.w, t.cont, t.left)
        ELSE resume(w1, t.cont, t.left)

timerFired(w, t) ==
    IF t.op = "open" THEN openDoorsDone(w, t)
    ELSE IF t.op = "close" THEN closeDoorsDone(w, t)
    ELSE moveOneFloorDone(w, t)

RemoveAt(s, i) == SubSeq(s, 1, i - 1) \o SubSeq(s, i + 1, Len(s))

Pending == Len(panelRequests) + Len(calls)

\* ---- Init: the state after a successful construction -----------------------
InitLift ==
    /\ \E minF \in 1 .. MaxFloor, maxF \in 1 .. MaxFloor, startF \in 1 .. MaxFloor :
          /\ constructor(minF, maxF, startF)
          /\ minFloor = minF
          /\ maxFloor = maxF
          /\ currentFloor = startF
    /\ direction = Idle
    /\ doors = Closed
    /\ panelRequests = <<>>
    /\ calls = <<>>
    /\ busy = FALSE
    /\ timers = <<>>
    /\ microtasks = <<>>
    /\ result = [op |-> "constructor", err |-> "none"]
    /\ watch = <<>>

Init ==
    /\ InitLift
    /\ driver = "off"
    /\ budget = 0

\* ---- commands issued from outside ------------------------------------------
pressButton(floor) ==
    IF assertFloorInRange(Self, floor)
    THEN /\ Install(updateDirectionIfIdle([Self EXCEPT !.panelRequests = SetAdd(@, floor)]))
         /\ result' = [op |-> "pressButton", err |-> "none"]
    ELSE /\ Install(Self)
         /\ result' = [op |-> "pressButton", err |-> "OutOfRangeError"]

callFrom(floor, dir) ==
    IF assertFloorInRange(Self, floor)
    THEN /\ Install(updateDirectionIfIdle(
                       [Self EXCEPT !.calls = Append(@, [floor |-> floor, direction |-> dir])]))
         /\ result' = [op |-> "callFrom", err |-> "none"]
    ELSE /\ Install(Self)
         /\ result' = [op |-> "callFrom", err |-> "OutOfRangeError"]

\* A request that grows a store is accepted while fewer than `cap` are outstanding.
Room(floor, cap) == ~assertFloorInRange(Self, floor) \/ Pending < cap

PressButton(floor) ==
    /\ SetHas(panelRequests, floor) \/ Room(floor, MaxPending)
    /\ pressButton(floor)
    /\ watch' = IF assertFloorInRange(Self, floor) /\ floor = currentFloor /\ direction = Idle
                THEN <<floor>> ELSE <<>>

CallFrom(floor, dir) ==
    /\ Room(floor, MaxPending)
    /\ callFrom(floor, dir)
    /\ watch' = <<>>

Command(name, r) ==
    /\ Install(r.w)
    /\ result' = [op |-> name, err |-> r.err]
    /\ watch' = <<>>

OpenDoors == Command("openDoors", openDoors(Self, "call", 0))
CloseDoors == Command("closeDoors", closeDoors(Self))
MoveOneFloor == Command("moveOneFloor", moveOneFloor(Self, "move", 0))
StepUntilStop(maxSteps) == Command("stepUntilStop", stepUntilStop(Self, maxSteps))

\* ---- a timer fires ---------------------------------------------------------
DoneName(op) == IF op = "open" THEN "openDone" ELSE IF op = "close" THEN "closeDone" ELSE "moveDone"

\* Timers run only when the microtask queue is empty.
Fire(i) ==
    LET t == timers[i]
        r == drain(timerFired([Self EXCEPT !.timers = RemoveAt(@, i)], t))
    IN  /\ microtasks = <<>>
        /\ Install(r.w)
        /\ result' = [op |-> DoneName(t.op), err |-> r.err]
        /\ watch' = watch
        /\ driver' = IF t.cont # "detached" /\ ~r.susp
                     THEN (IF driver = "closing" THEN "step"
                           ELSE IF driver = "stepping" THEN "close"
                           ELSE IF driver = "pickup" THEN "returned"
                           ELSE driver)
                     ELSE driver

TimerFires == \E i \in 1 .. Len(timers) : Fire(i)

\* The loop of a stepUntilStop goes on after an await that did not sleep.
MicrotaskRuns ==
    /\ microtasks # <<>>
    /\ LET r == stepUntilStop([Self EXCEPT !.microtasks = Tail(@)], Head(microtasks).left)
       IN  /\ Install(r.w)
           /\ result' = [op |-> "stepResumed", err |-> r.err]
    /\ watch' = watch

Press == \E floor \in ArgFloors : PressButton(floor)
Call == \E floor \in ArgFloors, dir \in Directions : CallFrom(floor, dir)
Step == \E maxSteps \in 1 .. MaxStepsArg : StepUntilStop(maxSteps)

Next ==
    \/ Press /\ UNCHANGED <<driver, budget>>
    \/ Call /\ UNCHANGED <<driver, budget>>
    \/ OpenDoors /\ UNCHANGED <<driver, budget>>
    \/ CloseDoors /\ UNCHANGED <<driver, budget>>
    \/ MoveOneFloor /\ UNCHANGED <<driver, budget>>
    \/ Step /\ UNCHANGED <<driver, budget>>
    \/ TimerFires /\ UNCHANGED budget
    \/ MicrotaskRuns /\ UNCHANGED <<driver, budget>>

Spec == Init /\ [][Next]_vars

\* ---- the same commands under a fair event loop ------------------------------
\* The event loop runs every setTimeout callback and every queued microtask;
\* nothing is assumed about the commands, which are issued at any moments
\* while at most MaxLive requests are outstanding.
FairPress ==
    /\ \E floor \in ArgFloors :
          /\ SetHas(panelRequests, floor) \/ Room(floor, MaxLive)
          /\ pressButton(floor)
    /\ watch' = <<>>

FairCall ==
    /\ \E floor \in ArgFloors, dir \in Directions :
          /\ Room(floor, MaxLive)
          /\ callFrom(floor, dir)
    /\ watch' = <<>>

FairTimer == TimerFires /\ UNCHANGED budget
FairMicrotask == MicrotaskRuns /\ UNCHANGED <<driver, budget>>

FairNext ==
    \/ FairPress /\ UNCHANGED <<driver, budget>>
    \/ FairCall /\ UNCHANGED <<driver, budget>>
    \/ OpenDoors /\ UNCHANGED <<driver, budget>>
    \/ CloseDoors /\ UNCHANGED <<driver, budget>>
    \/ MoveOneFloor /\ UNCHANGED <<driver, budget>>
    \/ Step /\ UNCHANGED <<driver, budget>>
    \/ FairTimer
    \/ FairMicrotask

FairSpec ==
    /\ Init
    /\ [][FairNext]_vars
    /\ WF_vars(FairTimer)
    /\ WF_vars(FairMicrotask)

\* ---- the driving loop: closeDoors(); stepUntilStop(); closeDoors(); ... ----
\* One caller that awaits each call before it makes the next (so nothing runs
\* between the microtasks of its stepUntilStop), while at most `budget`
\* requests are registered, from other tasks, at any moments.
DriverInit ==
    /\ InitLift
    /\ driver = "close"
    /\ budget = MaxRequests

DriverClose ==
    /\ driver = "close"
    /\ LET r == closeDoors(Self)
       IN  /\ Command("closeDoors", r)
           /\ driver' = IF r.susp THEN "closing" ELSE "step"
    /\ UNCHANGED budget

DriverStep ==
    /\ driver = "step"
    /\ \E maxSteps \in 1 .. MaxStepsArg :
          LET r == drain(stepUntilStop(Self, maxSteps))
          IN  /\ Command("stepUntilStop", r)
              /\ driver' = IF r.susp THEN "stepping" ELSE "close"
    /\ UNCHANGED budget

DriverPress ==
    /\ budget > 0
    /\ Press
    /\ budget' = budget - 1
    /\ UNCHANGED driver

DriverCall ==
    /\ budget > 0
    /\ Call
    /\ budget' = budget - 1
    /\ UNCHANGED driver

DriverTimer == TimerFires /\ UNCHANGED budget

DriverNext ==
    \/ DriverPress
    \/ DriverCall
    \/ DriverClose
    \/ DriverStep
    \/ DriverTimer

\* setTimeout callbacks always run, and the loop always makes its next call.
DriverSpec ==
    /\ DriverInit
    /\ [][DriverNext]_vars
    /\ WF_vars(DriverTimer)
    /\ WF_vars(DriverClose)
    /\ WF_vars(DriverStep)

\* ---- the pickup scenario: one call to a parked car, then stepUntilStop() ----
\* Init is every state of an idle car with doors Closed, empty stores and
\* nothing in flight; the call is for any other floor, with either direction.
PickupInit ==
    /\ InitLift
    /\ driver = "call"
    /\ budget = 0

Toward(from, to) == IF to > from THEN Up ELSE Down

PickupCall ==
    /\ driver = "call"
    /\ \E floor \in minFloor .. maxFloor, dir \in Directions :
          /\ floor # currentFloor
          /\ callFrom(floor, dir)
          /\ watch' = <<floor, dir, currentFloor>>
    /\ driver' = "step"
    /\ UNCHANGED budget

PickupStep ==
    /\ driver = "step"
    /\ LET r == drain(stepUntilStop(Self, DefaultMaxSteps))
       IN  /\ Install(r.w)
           /\ result' = [op |-> "stepUntilStop", err |-> r.err]
           /\ driver' = IF r.susp THEN "pickup" ELSE "returned"
    /\ UNCHANGED <<watch, budget>>

PickupTimer == TimerFires /\ UNCHANGED budget

PickupNext ==
    \/ PickupCall
    \/ PickupStep
    \/ PickupTimer

PickupSpec == PickupInit /\ [][PickupNext]_vars

\* ---- properties ------------------------------------------------------------
TimedOps == {"openDoors", "closeDoors", "moveOneFloor"}
Commands == {"pressButton", "callFrom", "openDoors", "closeDoors", "moveOneFloor"}
StoresEmpty == panelRequests = <<>> /\ calls = <<>>
CallHere == \E i \in 1 .. Len(calls) : calls[i].floor = currentFloor
Untouched == UNCHANGED <<liftVars, timers, microtasks>>

\* C1: the car's floor is always within [minFloor, maxFloor].
C1_RangeInvariant == minFloor <= currentFloor /\ currentFloor <= maxFloor

\* C1 witness: moveOneFloor was issued at the top floor going Up and returned
\* at once with the direction reversed.
C1_Witness ==
    /\ result = [op |-> "moveOneFloor", err |-> "none"]
    /\ currentFloor = maxFloor /\ minFloor < maxFloor
    /\ direction = Down /\ timers = <<>>

\* C2 (as claimed): a timed operation issued while another is in flight always
\* fails with BusyError and changes nothing.
C2_AlwaysBusyError ==
    [][(timers # <<>> /\ result'.op \in TimedOps)
          => (result'.err = "BusyError" /\ Untouched)]_vars

\* C2 (amended): a timed operation issued while another is in flight changes
\* nothing and starts nothing; it fails with BusyError unless its door check,
\* which comes first, decides: openDoors with doors Open and closeDoors with
\* doors Closed return normally, moveOneFloor with doors Open fails with
\* DoorsOpenError.
C2_MutualExclusion ==
    [][(timers # <<>> /\ result'.op \in TimedOps)
          => /\ Untouched
             /\ result'.op = "openDoors"
                   => result'.err = (IF doors = Open THEN "none" ELSE "BusyError")
             /\ result'.op = "closeDoors"
                   => result'.err = (IF doors = Closed THEN "none" ELSE "BusyError")
             /\ result'.op = "moveOneFloor"
                   => result'.err = (IF doors = Open THEN "DoorsOpenError" ELSE "BusyError")]_vars

\* C2 witness: closeDoors was rejected with BusyError while a timer is in flight.
C2_Witness ==
    /\ result = [op |-> "closeDoors", err |-> "BusyError"]
    /\ Len(timers) = 1

\* C3: at most one timed operation is in flight, and busy is true while one is.
C3_OneInFlight == Len(timers) <= 1 /\ (timers # <<>> => busy)

\* C3 witness: a command was turned away while the detached door-open of the
\* direction evaluation is the operation in flight.
C3_Witness ==
    /\ Len(timers) = 1 /\ timers[1].op = "open" /\ timers[1].cont = "detached"
    /\ busy
    /\ result = [op |-> "moveOneFloor", err |-> "BusyError"]

\* C4: moveOneFloor issued with doors Open fails with DoorsOpenError and
\* changes nothing; doors are Closed whenever a move is in flight and at the
\* step that changes currentFloor.
C4_NoMoveWithOpenDoors ==
    /\ [](\A i \in 1 .. Len(timers) : timers[i].op = "move" => doors = Closed)
    /\ [][/\ (result'.op = "moveOneFloor" /\ doors = Open)
                => (result'.err = "DoorsOpenError" /\ Untouched)
          /\ currentFloor' # currentFloor => (doors = Closed /\ doors' = Closed)]_vars

\* C4 witness: a moveOneFloor was refused because the doors are open.
C4_Witness ==
    /\ result = [op |-> "moveOneFloor", err |-> "DoorsOpenError"]
    /\ doors = Open

\* C5 (as claimed): under the driving loop every registered request is
\* eventually fulfilled, and the car ends Idle with doors Closed and stays so.
C5_ServiceLiveness == <>[](StoresEmpty /\ direction = Idle /\ doors = Closed)

\* C6: when a door-open completes, doors are Open and nothing is pending for
\* the current floor, neither a panel request nor a call of either direction.
C6_FulfillmentComplete ==
    result.op = "openDone"
        => (doors = Open /\ ~SetHas(panelRequests, currentFloor) /\ ~CallHere)

\* C6 witness: a door-open completed at a stop while requests for other floors
\* remain pending.
C6_Witness ==
    /\ result.op = "openDone"
    /\ doors = Open
    /\ Len(calls) > 0
    /\ direction # Idle

\* C7 (as claimed): a failing command leaves the car as it was and starts no
\* timed operation; NoDestinationError is raised only with nothing pending.
C7_ErrorsChangeNothing ==
    [][(result'.op \in Commands /\ result'.err # "none")
          => /\ Untouched
             /\ result'.err = "NoDestinationError" => StoresEmpty]_vars

\* C8: with both stores empty, stepUntilStop returns without error, moves
\* nothing, starts nothing and leaves the direction Idle.
C8_IdleTerminal ==
    [][(StoresEmpty /\ result'.op = "stepUntilStop")
          => (result'.err = "none" /\ Untouched /\ direction' = Idle)]_vars

\* C8 witness: stepUntilStop returned with nothing pending, on a car that has
\* served a request and is closing its doors.
C8_Witness ==
    /\ result = [op |-> "stepUntilStop", err |-> "none"]
    /\ StoresEmpty
    /\ Len(timers) = 1 /\ timers[1].op = "close"

\* C9: moveOneFloor with doors Closed, not busy and the next floor outside the
\* range returns at once with the direction flipped and all else unchanged.
C9_EdgeReversal ==
    [][(/\ result'.op = "moveOneFloor"
        /\ doors = Closed /\ ~busy
        /\ (currentFloor + direction < minFloor \/ currentFloor + direction > maxFloor))
          => /\ result'.err = "none"
             /\ direction' = (IF direction = Up THEN Down ELSE Up)
             /\ direction \in Directions
             /\ UNCHANGED <<minFloor, maxFloor, currentFloor, doors, panelRequests,
                            calls, busy, timers, microtasks>>]_vars

\* C9 witness: moveOneFloor at the bottom floor going Down returned at once
\* with the direction now Up.
C9_Witness ==
    /\ result = [op |-> "moveOneFloor", err |-> "none"]
    /\ currentFloor = minFloor /\ minFloor < maxFloor
    /\ direction = Up /\ timers = <<>> /\ ~busy

\* C10 (as claimed): after pressButton(f) at floor f with direction Idle and no
\* further command, once nothing is in flight the doors are Open at f and f is
\* no longer a pending panel request.
C10_AlreadyThere ==
    (watch # <<>> /\ timers = <<>>)
        => (doors = Open /\ currentFloor = watch[1] /\ ~SetHas(panelRequests, watch[1]))

\* C11: a parked car called from another floor f with the direction d that
\* leads to f has direction d right after the call; when the following
\* stepUntilStop() has returned it stands at f with doors Open, no call pending
\* and direction Idle, and every floor change on the way brought it one floor
\* nearer to f (so it moved exactly |f - start| floors).
PickupCase == watch # <<>> /\ watch[2] = Toward(watch[3], watch[1])

C11_SinglePickup ==
    /\ [](PickupCase =>
            /\ driver = "step" => direction = watch[2]
            /\ driver = "returned" =>
                  (currentFloor = watch[1] /\ doors = Open /\ calls = <<>> /\ direction = Idle))
    /\ [][(PickupCase /\ currentFloor' # currentFloor)
             => Abs(watch[1] - currentFloor') = Abs(watch[1] - currentFloor) - 1]_vars

\* C11 witness: stepUntilStop() has returned after a pickup two floors away.
C11_Witness ==
    /\ PickupCase
    /\ driver = "returned"
    /\ Abs(watch[1] - watch[3]) = 2
    /\ currentFloor = watch[1]

\* C12: every pending panel floor and every pending call floor lies in
\* [minFloor, maxFloor]; pressButton and callFrom with a floor outside the range
\* fail with OutOfRangeError and leave both stores and the direction unchanged;
\* pressing a pending floor leaves pendingPanelRequests unchanged; every
\* callFrom in range appends exactly one entry, also next to an identical one.
OutOfRange(floor) == floor < minFloor \/ floor > maxFloor

StoresInRange ==
    /\ \A i \in 1 .. Len(panelRequests) : ~OutOfRange(panelRequests[i])
    /\ \A i \in 1 .. Len(calls) : ~OutOfRange(calls[i].floor)

C12_StoresInRange ==
    /\ []StoresInRange
    /\ [][/\ \A floor \in ArgFloors :
                (OutOfRange(floor) /\ result'.op = "pressButton" /\ PressButton(floor))
                   => (result'.err = "OutOfRangeError"
                       /\ UNCHANGED <<panelRequests, calls, direction>>)
          /\ \A floor \in ArgFloors, dir \in Directions :
                (OutOfRange(floor) /\ result'.op = "callFrom" /\ CallFrom(floor, dir))
                   => (result'.err = "OutOfRangeError"
                       /\ UNCHANGED <<panelRequests, calls, direction>>)
          /\ \A floor \in ArgFloors :
                (SetHas(panelRequests, floor) /\ result'.op = "pressButton" /\ PressButton(floor))
                   => panelRequests' = panelRequests
          /\ \A floor \in ArgFloors, dir \in Directions :
                (~OutOfRange(floor) /\ result'.op = "callFrom" /\ CallFrom(floor, dir))
                   => calls' = Append(calls, [floor |-> floor, direction |-> dir])]_vars

\* C12 witness: a callFrom was accepted next to an identical pending call.
C12_Witness ==
    /\ result = [op |-> "callFrom", err |-> "none"]
    /\ Len(calls) = 2 /\ calls[1] = calls[2]

\* C13: when a closeDoors completes while the direction is Idle and a panel
\* request or a call for the current floor is pending, the direction
\* evaluation it re-triggers has started a door-open, which is in flight.
C13_ReopenAfterClose ==
    (/\ result.op = "closeDone"
     /\ direction = Idle
     /\ SetHas(panelRequests, currentFloor) \/ CallHere)
        => \E i \in 1 .. Len(timers) : timers[i].op = "open"

OpenStarted(ts) == \E i \in 1 .. Len(ts) : ts[i].op = "open"
CallAt(floor, dir) ==
    \E i \in 1 .. Len(calls) : calls[i].floor = floor /\ calls[i].direction = dir

\* C14: when a one-floor move completes at floor f with travel direction d,
\* a door-open is started at f exactly if f is a panel request or a pending
\* call at f has direction d, and the move itself removes no request (so calls
\* of the opposite direction alone are passed and stay pending); the
\* door-open that completes at f removes every call at f, of both directions.
C14_StopDecision ==
    [][/\ result'.op = "moveDone"
          => /\ currentFloor' = currentFloor + direction
             /\ panelRequests' = panelRequests /\ calls' = calls
             /\ OpenStarted(timers')
                   <=> (SetHas(panelRequests, currentFloor') \/ CallAt(currentFloor', direction))
       /\ result'.op = "openDone"
          => calls' = SelectSeq(calls, LAMBDA c : c.floor # currentFloor)]_vars

\* C14 witness: a move has completed at a floor with a pending call and no
\* door-open was started: the call has the opposite direction and was passed.
C14_Witness ==
    /\ result.op = "moveDone"
    /\ CallHere
    /\ ~OpenStarted(timers)

Range(s) == {s[i] : i \in 1 .. Len(s)}
CallFloors(cs) == [i \in 1 .. Len(cs) |-> cs[i].floor]

RECURSIVE Ascending(_)
Ascending(S) ==
    IF S = {} THEN <<>>
    ELSE LET m == CHOOSE x \in S : \A y \in S : x <= y
         IN  <<m>> \o Ascending(S \ {m})

\* The first candidate of the enumeration e at minimum distance from cur.
FirstNearest(e, cur) ==
    e[CHOOSE k \in 1 .. Len(e) :
         \A j \in 1 .. Len(e) :
            /\ Abs(e[k] - cur) <= Abs(e[j] - cur)
            /\ j < k => Abs(e[j] - cur) > Abs(e[k] - cur)]

\* A step in which the direction evaluation runs with direction Idle and a
\* non-empty store: an accepted pressButton or callFrom, the completion of a
\* closeDoors, or a moveOneFloor that passed its door and busy checks (the
\* stores after the step are those the evaluation reads).
Evaluates ==
    /\ \/ result'.op \in {"pressButton", "callFrom", "closeDone"} /\ result'.err = "none"
       \/ result'.op = "moveOneFloor" /\ doors = Closed /\ ~busy
    /\ direction = Idle
    /\ panelRequests' # <<>> \/ calls' # <<>>

Chooses(target) ==
    /\ direction' = IF target > currentFloor THEN Up
                    ELSE IF target < currentFloor THEN Down ELSE Idle
    /\ (OpenStarted(timers') /\ ~OpenStarted(timers))
          <=> (target = currentFloor /\ doors = Closed /\ ~busy)

\* C15 as stated: the evaluation chooses the first nearest candidate of the
\* enumeration "panel floors in ascending order, then call floors in insertion
\* order", and sets the direction towards it, or stays Idle with a detached
\* door-open when it is the current floor.
C15_AscendingTieBreak ==
    [][Evaluates
          => Chooses(FirstNearest(Ascending(Range(panelRequests')) \o CallFloors(calls'),
                                  currentFloor))]_vars

\* C15 amended: the enumeration is the panel floors in the order in which they
\* were pressed, then the call floors in insertion order; with the current
\* floor as target the direction stays Idle and the detached openDoors() starts
\* a door-open exactly if the doors are Closed and nothing is in flight.
C15_DirectionSelection ==
    [][Evaluates
          => Chooses(FirstNearest(panelRequests' \o CallFloors(calls'), currentFloor))]_vars

\* C15 witness: a button was pressed, two panel floors are pending at the
\* same distance, the upper one pressed first, and the car is going Up.
C15_Witness ==
    /\ result.op = "pressButton"
    /\ Len(panelRequests) = 2
    /\ panelRequests[1] = currentFloor + 1
    /\ panelRequests[2] = currentFloor - 1
    /\ calls = <<>>
    /\ direction = Up

MoveInFlight == \E i \in 1 .. Len(timers) : timers[i].op = "move"

\* C16 as stated: the pair (direction, doors) is Idle x Closed, Idle x Open or
\* Up/Down x Closed; doors Open never holds with direction Up or Down.
C16_DoorMotionStates ==
    \/ direction = Idle /\ doors = Closed
    \/ direction = Idle /\ doors = Open
    \/ direction \in {Up, Down} /\ doors = Closed

\* C16 amended: while a move is in flight the doors are Closed and the
\* direction is Up or Down; doors Open with direction Up or Down holds only
\* while the car stands at a floor with a request still pending.
C16_DoorsClosedInMotion ==
    /\ MoveInFlight => (doors = Closed /\ direction \in {Up, Down})
    /\ (doors = Open /\ direction \in {Up, Down}) => (~MoveInFlight /\ ~StoresEmpty)

\* C16 witness: a door-open has completed at a stop, the doors are Open and
\* the car keeps its direction Up for a request that is still pending.
C16_Witness ==
    /\ result.op = "openDone"
    /\ doors = Open
    /\ direction = Up
    /\ ~StoresEmpty

IsPrefix(s, t) == Len(s) <= Len(t) /\ SubSeq(t, 1, Len(s)) = s

\* C17: a step that is not the completion of a door-open removes and reorders
\* nothing in panelRequests and calls (each store is a prefix of what it is
\* after the step); the completion of a door-open removes exactly the
\* requests whose floor is the current floor and keeps the others in order.
C17_OnlyFulfillmentRemoves ==
    [][/\ result'.op # "openDone"
          => (IsPrefix(panelRequests, panelRequests') /\ IsPrefix(calls, calls'))
       /\ result'.op = "openDone"
          => /\ currentFloor' = currentFloor
             /\ panelRequests' = SelectSeq(panelRequests, LAMBDA f : f # currentFloor)
             /\ calls' = SelectSeq(calls, LAMBDA c : c.floor # currentFloor)]_vars

\* C17 witness: a door-open has completed and a call for another floor is
\* still pending.
C17_Witness ==
    /\ result.op = "openDone"
    /\ calls # <<>>
    /\ ~CallHere

\* C18: with timers that always fire, every state with busy = true is
\* followed by a state with busy = false, whatever commands are issued in
\* between; openDoors with doors Open and closeDoors with doors Closed return
\* without setting busy.
C18_BusyReleased ==
    /\ busy ~> ~busy
    /\ [][/\ (result'.op = "openDoors" /\ doors = Open) => (result'.err = "none" /\ busy' = busy)
          /\ (result'.op = "closeDoors" /\ doors = Closed) => (result'.err = "none" /\ busy' = busy)]_vars

\* C18 witness: a closeDoors has completed and released busy, after the
\* detached door-open of its direction evaluation was rejected.
C18_Witness ==
    /\ result.op = "closeDone"
    /\ ~busy
    /\ direction = Idle
    /\ SetHas(panelRequests, currentFloor)

\* C19: whenever both request stores are empty the direction is Idle.
C19_EmptyStoresIdle == StoresEmpty => direction = Idle

\* C19 witness: a door-open has completed, it has fulfilled the last pending
\* request, and the direction is Idle.
C19_Witness ==
    /\ result.op = "openDone"
    /\ StoresEmpty
    /\ direction = Idle
    /\ doors = Open
    /\ ~busy

\* C20: a direction that is Up or Down changes only in two ways: it is
\* reversed by moveOneFloor (called from outside or by the loop of
\* stepUntilStop) at the edge it points to, Up at maxFloor and Down at
\* minFloor, the car staying there; or it becomes Idle at the completion of a
\* door-open that leaves both stores empty.  Request intake and closeDoors
\* never change it.
C20_SweepDirection ==
    [][(direction # Idle /\ direction' # direction)
          => \/ /\ direction' = Idle
                /\ result'.op = "openDone"
                /\ panelRequests' = <<>> /\ calls' = <<>>
             \/ /\ direction' = 0 - direction
                /\ result'.op \in {"moveOneFloor", "stepUntilStop", "stepResumed", "moveDone"}
                /\ currentFloor' = IF direction = Up THEN maxFloor ELSE minFloor]_vars

\* C20 witness: a button below the car was pressed while it was going Up, and
\* it is still going Up.
C20_Witness ==
    /\ result = [op |-> "pressButton", err |-> "none"]
    /\ direction = Up
    /\ Len(panelRequests) = 2
    /\ panelRequests[2] < currentFloor
    /\ panelRequests[1] > currentFloor

====
